---- MODULE Spec2Model ----
(***************************************************************************)
(* Model of the Eternalog ink! contract (src/lib.rs): an append-only log   *)
(* store with a per-entry storage fee, two secondary indices and a linear  *)
(* content search.  One action per contract message; the pure part of      *)
(* every message is an operator computed the way the code computes it.     *)
(***************************************************************************)
EXTENDS Integers, Sequences, FiniteSets, TLC

(* ---------------------------- bounds ---------------------------------- *)
\* u64 is modelled with a small ceiling so that saturation is reachable
U64_MAX == 3
\* Balance (u128) is modelled with a small ceiling
BALANCE_MAX == 1
\* number of successful store_log calls explored: one past the ID ceiling
MaxStores == U64_MAX + 1

(* ---------------------------- input sets ------------------------------- *)
Accounts == {"alice", "bob"}
Deployer == "alice"
U64 == 0..U64_MAX
Balance == 0..BALANCE_MAX
\* log types and block numbers are opaque to the contract, except log type 0
LogTypes == {0, 1, 2}
Blocks == {1, 2}
OneBlock == {1}
\* strings are sequences of characters
Texts == {<< >>, <<"a">>, <<"a", "b">>}
OneText == {<< >>, <<"a">>}
\* narrower input sets, for hosts that vary only some of the inputs
OneType == {0, 1}
NoPayment == {0}
ZeroFee == {0}
Terms == {<< >>, <<"a">>, <<"b">>, <<"a", "b">>, <<"b", "a">>}

(* ---------------------------- state ------------------------------------ *)
VARIABLES owner, next_log_id, storage_fee, total_logs, total_fees_burned,
          log_data, log_types, log_authors, log_timestamps,
          logs_by_type, logs_by_author,
          emitted,   \* events emitted by the last call, in order
          op, args,  \* the last message called and the inputs of that call
          ret,       \* what that call returned
          issued,    \* history: IDs returned by successful store_log calls
          paid       \* history: sum of the payments of those calls

storage == <<owner, next_log_id, storage_fee, total_logs, total_fees_burned,
             log_data, log_types, log_authors, log_timestamps,
             logs_by_type, logs_by_author>>
vars == <<owner, next_log_id, storage_fee, total_logs, total_fees_burned,
          log_data, log_types, log_authors, log_timestamps,
          logs_by_type, logs_by_author, emitted, op, args, ret, issued, paid>>

(* ---------------------------- helpers ---------------------------------- *)
\* ink::storage::Mapping: a partial function; default() is empty
MappingDefault == [k \in {} |-> 0]
MappingInsert(m, k, v) == [x \in (DOMAIN m) \cup {k} |-> IF x = k THEN v ELSE m[x]]
MappingContains(m, k) == k \in DOMAIN m
\* Mapping::get(k).unwrap_or_default() for Vec values
GetOrDefault(m, k) == IF k \in DOMAIN m THEN m[k] ELSE << >>

NoArgs == << >>
Ok(v) == [ok |-> TRUE, val |-> v]
Err(e) == [ok |-> FALSE, err |-> e]

\* an addition that wraps at the ceiling instead of saturating
wrapping_add(a, b, max) == (a + b) % (max + 1)

saturating_add(a, b, max) == IF a + b > max THEN max ELSE a + b

\* a push that inserts at the front of the vector
VecPushFront(v, x) == <<x>> \o v

\* Vec::push
VecPush(v, x) == Append(v, x)

\* Vec::contains
VecContains(v, x) == \E i \in 1..Len(v) : v[i] = x

\* str::contains: term occurs in data as a contiguous substring
StrContains(data, term) ==
    \E i \in 0..(Len(data) - Len(term)) : SubSeq(data, i + 1, i + Len(term)) = term

(* ---------------------------- constructor ------------------------------ *)
Init ==
    /\ owner = Deployer
    /\ next_log_id = 1
    /\ storage_fee \in Balance
    /\ total_logs = 0
    /\ total_fees_burned = 0
    /\ log_data = MappingDefault
    /\ log_types = MappingDefault
    /\ log_authors = MappingDefault
    /\ log_timestamps = MappingDefault
    /\ logs_by_type = MappingDefault
    /\ logs_by_author = MappingDefault
    /\ emitted = << >>
    /\ op = "new"
    /\ args = NoArgs
    /\ ret = Ok("unit")
    /\ issued = << >>
    /\ paid = 0

(* ---------------------------- store_log -------------------------------- *)
\* the validation with the type check made before the emptiness check
store_log_check_type_first(data, log_type, payment) ==
    IF log_type = 0 THEN "InvalidLogType"
    ELSE IF data = << >> THEN "EmptyLogData"
    ELSE IF payment < storage_fee THEN "InsufficientBalance"
    ELSE "none"

\* the validation with the payment compared by <= instead of <
store_log_check_strict(data, log_type, payment) ==
    IF data = << >> THEN "EmptyLogData"
    ELSE IF log_type = 0 THEN "InvalidLogType"
    ELSE IF payment <= storage_fee THEN "InsufficientBalance"
    ELSE "none"

\* the validation prefix of store_log: the error it returns, or "none"
store_log_check(data, log_type, payment) ==
    IF data = << >> THEN "EmptyLogData"
    ELSE IF log_type = 0 THEN "InvalidLogType"
    ELSE IF payment < storage_fee THEN "InsufficientBalance"
    ELSE "none"

LogStored(log_id, author, log_type, data) ==
    [event |-> "LogStored", log_id |-> log_id, author |-> author,
     log_type |-> log_type, data |-> data]
FeeBurned(amount, burner) ==
    [event |-> "FeeBurned", amount |-> amount, burner |-> burner]
StorageFeeUpdated(old_fee, new_fee, updated_by) ==
    [event |-> "StorageFeeUpdated", old_fee |-> old_fee, new_fee |-> new_fee,
     updated_by |-> updated_by]

\* a store that leaves out the insert into log_timestamps
store_log_no_timestamp(caller, data, log_type, payment, current_block) ==
    \* exploration cap only: the contract itself never refuses a call
    /\ Len(issued) < MaxStores
    /\ op' = "store_log"
    /\ args' = [caller |-> caller, data |-> data, log_type |-> log_type,
                payment |-> payment, block_number |-> current_block]
    /\ IF store_log_check(data, log_type, payment) # "none"
       THEN /\ ret' = Err(store_log_check(data, log_type, payment))
            /\ emitted' = << >>
            /\ UNCHANGED <<storage, issued, paid>>
       ELSE LET log_id == next_log_id IN
            /\ log_data' = MappingInsert(log_data, log_id, data)
            /\ log_types' = MappingInsert(log_types, log_id, log_type)
            /\ log_authors' = MappingInsert(log_authors, log_id, caller)
            /\ log_timestamps' = log_timestamps
            /\ logs_by_type' = MappingInsert(logs_by_type, log_type,
                                   VecPush(GetOrDefault(logs_by_type, log_type), log_id))
            /\ logs_by_author' = MappingInsert(logs_by_author, caller,
                                   VecPush(GetOrDefault(logs_by_author, caller), log_id))
            /\ next_log_id' = saturating_add(next_log_id, 1, U64_MAX)
            /\ total_logs' = saturating_add(total_logs, 1, U64_MAX)
            /\ total_fees_burned' = saturating_add(total_fees_burned, payment, BALANCE_MAX)
            /\ emitted' = <<LogStored(log_id, caller, log_type, data),
                            FeeBurned(payment, caller)>>
            /\ ret' = Ok(log_id)
            /\ issued' = Append(issued, log_id)
            /\ paid' = paid + payment
            /\ UNCHANGED <<owner, storage_fee>>

store_log(caller, data, log_type, payment, current_block) ==
    \* exploration cap only: the contract itself never refuses a call
    /\ Len(issued) < MaxStores
    /\ op' = "store_log"
    /\ args' = [caller |-> caller, data |-> data, log_type |-> log_type,
                payment |-> payment, block_number |-> current_block]
    /\ IF store_log_check(data, log_type, payment) # "none"
       THEN /\ ret' = Err(store_log_check(data, log_type, payment))
            /\ emitted' = << >>
            /\ UNCHANGED <<storage, issued, paid>>
       ELSE LET log_id == next_log_id IN
            /\ log_data' = MappingInsert(log_data, log_id, data)
            /\ log_types' = MappingInsert(log_types, log_id, log_type)
            /\ log_authors' = MappingInsert(log_authors, log_id, caller)
            /\ log_timestamps' = MappingInsert(log_timestamps, log_id, current_block)
            /\ logs_by_type' = MappingInsert(logs_by_type, log_type,
                                   VecPush(GetOrDefault(logs_by_type, log_type), log_id))
            /\ logs_by_author' = MappingInsert(logs_by_author, caller,
                                   VecPush(GetOrDefault(logs_by_author, caller), log_id))
            /\ next_log_id' = saturating_add(next_log_id, 1, U64_MAX)
            /\ total_logs' = saturating_add(total_logs, 1, U64_MAX)
            /\ total_fees_burned' = saturating_add(total_fees_burned, payment, BALANCE_MAX)
            /\ emitted' = <<LogStored(log_id, caller, log_type, data),
                            FeeBurned(payment, caller)>>
            /\ ret' = Ok(log_id)
            /\ issued' = Append(issued, log_id)
            /\ paid' = paid + payment
            /\ UNCHANGED <<owner, storage_fee>>

(* ---------------------------- queries ---------------------------------- *)
get_log(log_id) ==
    IF /\ MappingContains(log_data, log_id)
       /\ MappingContains(log_types, log_id)
       /\ MappingContains(log_authors, log_id)
       /\ MappingContains(log_timestamps, log_id)
    THEN Ok([id |-> log_id, data |-> log_data[log_id], log_type |-> log_types[log_id],
             author |-> log_authors[log_id], timestamp |-> log_timestamps[log_id]])
    ELSE Err("LogNotFound")

get_logs_by_type(log_type) == GetOrDefault(logs_by_type, log_type)

get_logs_by_author(author) == GetOrDefault(logs_by_author, author)

\* the loop `for log_id in 1..self.next_log_id` (upper end excluded)
RECURSIVE SearchFrom(_, _)
SearchFrom(log_id, search_term) ==
    IF log_id >= next_log_id THEN << >>
    ELSE IF MappingContains(log_data, log_id) /\ StrContains(log_data[log_id], search_term)
         THEN <<log_id>> \o SearchFrom(log_id + 1, search_term)
         ELSE SearchFrom(log_id + 1, search_term)

search_logs_by_content(search_term) == SearchFrom(1, search_term)

\* an intersection whose containment test looks at the type list itself
IntersectSelf(type_logs, author_logs) ==
    SelectSeq(type_logs, LAMBDA x : VecContains(type_logs, x))

\* the loop `for log_id in type_logs` with the containment test on author_logs
RECURSIVE Intersect(_, _)
Intersect(type_logs, author_logs) ==
    IF type_logs = << >> THEN << >>
    ELSE IF VecContains(author_logs, Head(type_logs))
         THEN <<Head(type_logs)>> \o Intersect(Tail(type_logs), author_logs)
         ELSE Intersect(Tail(type_logs), author_logs)

get_logs_by_type_and_author(log_type, author) ==
    Intersect(get_logs_by_type(log_type), get_logs_by_author(author))

get_storage_fee == storage_fee
get_total_logs == total_logs
get_total_fees_burned == total_fees_burned
get_next_log_id == next_log_id
get_owner == owner

\* a read-only message: returns v, emits nothing, changes no storage
Query(name, v) ==
    /\ op' = name
    /\ args' = NoArgs
    /\ ret' = v
    /\ emitted' = << >>
    /\ UNCHANGED <<storage, issued, paid>>

call_get_log(log_id) == Query("get_log", get_log(log_id))
call_get_logs_by_type(log_type) == Query("get_logs_by_type", get_logs_by_type(log_type))
call_get_logs_by_author(author) == Query("get_logs_by_author", get_logs_by_author(author))
call_search_logs_by_content(search_term) ==
    Query("search_logs_by_content", search_logs_by_content(search_term))
call_get_logs_by_type_and_author(log_type, author) ==
    Query("get_logs_by_type_and_author", get_logs_by_type_and_author(log_type, author))
call_get_storage_fee == Query("get_storage_fee", get_storage_fee)
call_get_total_logs == Query("get_total_logs", get_total_logs)
call_get_total_fees_burned == Query("get_total_fees_burned", get_total_fees_burned)
call_get_next_log_id == Query("get_next_log_id", get_next_log_id)
call_get_owner == Query("get_owner", get_owner)

(* ---------------------------- update_storage_fee ----------------------- *)
\* an update that writes the fee before it checks the caller
update_storage_fee_write_first(caller, new_fee) ==
    /\ op' = "update_storage_fee"
    /\ args' = [caller |-> caller, new_fee |-> new_fee]
    /\ storage_fee' = new_fee
    /\ IF caller # owner
       THEN /\ ret' = Err("Unauthorized")
            /\ emitted' = << >>
       ELSE /\ emitted' = <<StorageFeeUpdated(storage_fee, new_fee, caller)>>
            /\ ret' = Ok("unit")
    /\ UNCHANGED <<owner, next_log_id, total_logs, total_fees_burned,
                   log_data, log_types, log_authors, log_timestamps,
                   logs_by_type, logs_by_author, issued, paid>>

\* an update without the caller check
update_storage_fee_no_check(caller, new_fee) ==
    /\ op' = "update_storage_fee"
    /\ args' = [caller |-> caller, new_fee |-> new_fee]
    /\ storage_fee' = new_fee
    /\ emitted' = <<StorageFeeUpdated(storage_fee, new_fee, caller)>>
    /\ ret' = Ok("unit")
    /\ UNCHANGED <<owner, next_log_id, total_logs, total_fees_burned,
                   log_data, log_types, log_authors, log_timestamps,
                   logs_by_type, logs_by_author, issued, paid>>

\* an update that reads the old fee for its event after it wrote the new one
update_storage_fee_old_fee_late(caller, new_fee) ==
    /\ op' = "update_storage_fee"
    /\ args' = [caller |-> caller, new_fee |-> new_fee]
    /\ IF caller # owner
       THEN /\ ret' = Err("Unauthorized")
            /\ emitted' = << >>
            /\ UNCHANGED <<storage, issued, paid>>
       ELSE /\ storage_fee' = new_fee
            /\ emitted' = <<StorageFeeUpdated(new_fee, new_fee, caller)>>
            /\ ret' = Ok("unit")
            /\ UNCHANGED <<owner, next_log_id, total_logs, total_fees_burned,
                           log_data, log_types, log_authors, log_timestamps,
                           logs_by_type, logs_by_author, issued, paid>>

\* an update that assigns the caller to owner instead of comparing them
update_storage_fee_assigns_owner(caller, new_fee) ==
    /\ op' = "update_storage_fee"
    /\ args' = [caller |-> caller, new_fee |-> new_fee]
    /\ owner' = caller
    /\ storage_fee' = new_fee
    /\ emitted' = <<StorageFeeUpdated(storage_fee, new_fee, caller)>>
    /\ ret' = Ok("unit")
    /\ UNCHANGED <<next_log_id, total_logs, total_fees_burned,
                   log_data, log_types, log_authors, log_timestamps,
                   logs_by_type, logs_by_author, issued, paid>>

update_storage_fee(caller, new_fee) ==
    /\ op' = "update_storage_fee"
    /\ args' = [caller |-> caller, new_fee |-> new_fee]
    /\ IF caller # owner
       THEN /\ ret' = Err("Unauthorized")
            /\ emitted' = << >>
            /\ UNCHANGED <<storage, issued, paid>>
       ELSE /\ storage_fee' = new_fee
            /\ emitted' = <<StorageFeeUpdated(storage_fee, new_fee, caller)>>
            /\ ret' = Ok("unit")
            /\ UNCHANGED <<owner, next_log_id, total_logs, total_fees_burned,
                           log_data, log_types, log_authors, log_timestamps,
                           logs_by_type, logs_by_author, issued, paid>>

(* ---------------------------- specification ---------------------------- *)
\* the messages a host can send, with the inputs it supplies drawn from the
\* given sets
NextFor(DataSet, BlockSet, TypeSet, PaySet, FeeSet) ==
    \/ \E caller \in Accounts, data \in DataSet, log_type \in TypeSet,
          payment \in PaySet, current_block \in BlockSet :
          store_log(caller, data, log_type, payment, current_block)
    \/ \E caller \in Accounts, new_fee \in FeeSet : update_storage_fee(caller, new_fee)
    \/ \E log_id \in U64 : call_get_log(log_id)
    \/ \E log_type \in LogTypes : call_get_logs_by_type(log_type)
    \/ \E author \in Accounts : call_get_logs_by_author(author)
    \/ \E search_term \in Terms : call_search_logs_by_content(search_term)
    \/ \E log_type \in LogTypes, author \in Accounts :
          call_get_logs_by_type_and_author(log_type, author)
    \/ call_get_storage_fee
    \/ call_get_total_logs
    \/ call_get_total_fees_burned
    \/ call_get_next_log_id
    \/ call_get_owner

\* a host that stores several texts in several blocks, any payment and fee
Next == NextFor(Texts, Blocks, OneType, Balance, Balance)
Spec == Init /\ [][Next]_vars

\* a host that stores under several log types, one text, nothing paid
NextIndex == NextFor(OneText, OneBlock, LogTypes, NoPayment, ZeroFee)
SpecIndex == Init /\ [][NextIndex]_vars

\* a host that pays and sets any amount, one text under one log type
NextFees == NextFor(OneText, OneBlock, OneType, Balance, Balance)
SpecFees == Init /\ [][NextFees]_vars

(* ---------------------------- properties ------------------------------- *)
IsResult(o) == o \in {"store_log", "update_storage_fee", "get_log"}
Stored(o, r) == o = "store_log" /\ r.ok
Failed(o, r) == IsResult(o) /\ ~r.ok
Range(v) == {v[i] : i \in 1..Len(v)}
IsPrefix(u, v) == Len(u) <= Len(v) /\ SubSeq(v, 1, Len(u)) = u
Min(a, b) == IF a < b THEN a ELSE b
StrictlyAscending(v) == \A i \in 1..Len(v) : \A j \in 1..Len(v) : i < j => v[i] < v[j]

\* C1: every successful store_log returns an ID greater than every ID returned
\* before (the first one 1), and get_log on it right afterwards returns the
\* entry exactly as passed, with the caller as author and the host's block
\* number as timestamp.
C1_FreshIdAndReadBack ==
    Stored(op, ret) =>
        /\ \A i \in 1..(Len(issued) - 1) : issued[i] < ret.val
        /\ (Len(issued) = 1 => ret.val = 1)
        /\ get_log(ret.val) = Ok([id |-> ret.val, data |-> args.data,
                                  log_type |-> args.log_type, author |-> args.caller,
                                  timestamp |-> args.block_number])

\* C2: store_log reports the first violated precondition in the order empty
\* data, zero type, insufficient payment, whatever else is violated.
C2_ValidationOrder ==
    op = "store_log" =>
        /\ (args.data = << >> => Failed(op, ret) /\ ret.err = "EmptyLogData")
        /\ (args.data # << >> /\ args.log_type = 0 =>
                Failed(op, ret) /\ ret.err = "InvalidLogType")
        /\ (args.data # << >> /\ args.log_type # 0 /\ args.payment < storage_fee =>
                Failed(op, ret) /\ ret.err = "InsufficientBalance")

C2_Witness ==
    /\ op = "store_log"
    /\ args.data = << >> /\ args.log_type = 0 /\ args.payment < storage_fee
    /\ ret = Err("EmptyLogData")

\* C3: a call that returns an error leaves the whole storage unchanged and
\* emits no event.
C3_ErrorsChangeNothing ==
    [][Failed(op', ret') => (UNCHANGED storage /\ emitted' = << >>)]_vars

C3_Witness ==
    /\ Failed(op, ret)
    /\ op = "store_log" /\ ret.err = "InsufficientBalance"
    /\ total_logs > 0

\* C4: an ID is in logs_by_type[t] exactly when an entry with that ID is stored
\* with type t, and in logs_by_author[a] exactly when it is stored with author a.
C4_IndexMatchesEntries ==
    \A i \in U64 :
        /\ \A t \in LogTypes :
              VecContains(get_logs_by_type(t), i)
                  <=> (get_log(i).ok /\ get_log(i).val.log_type = t)
        /\ \A a \in Accounts :
              VecContains(get_logs_by_author(a), i)
                  <=> (get_log(i).ok /\ get_log(i).val.author = a)

\* C5: every bucket only grows at its end; a successful store_log appends the
\* new ID to the bucket of its type and the bucket of its caller and to no other.
C5_BucketsAppendOnly ==
    [][/\ \A t \in LogTypes : IsPrefix(get_logs_by_type(t), get_logs_by_type(t)')
       /\ \A a \in Accounts : IsPrefix(get_logs_by_author(a), get_logs_by_author(a)')
       /\ Stored(op', ret') =>
             /\ \A t \in LogTypes :
                   get_logs_by_type(t)' =
                       IF t = args'.log_type
                       THEN Append(get_logs_by_type(t), ret'.val)
                       ELSE get_logs_by_type(t)
             /\ \A a \in Accounts :
                   get_logs_by_author(a)' =
                       IF a = args'.caller
                       THEN Append(get_logs_by_author(a), ret'.val)
                       ELSE get_logs_by_author(a)]_vars

C5_Witness ==
    /\ Stored(op, ret)
    /\ Len(get_logs_by_type(args.log_type)) >= 2
    /\ Len(get_logs_by_author(args.caller)) >= 2
    /\ \E t \in LogTypes : t # args.log_type /\ get_logs_by_type(t) # << >>

\* C6: once get_log(id) returns an entry it returns the same entry ever after.
C6_EntriesImmutable ==
    [][\A id \in U64 : get_log(id).ok => get_log(id)' = get_log(id)]_vars

\* C7: update_storage_fee succeeds exactly for the owner and then the fee is
\* new_fee; any other caller gets Unauthorized and the fee stays.
C7_OnlyOwnerUpdatesFee ==
    [][op' = "update_storage_fee" =>
          IF args'.caller = owner
          THEN ret' = Ok("unit") /\ get_storage_fee' = args'.new_fee
          ELSE ret' = Err("Unauthorized") /\ get_storage_fee' = get_storage_fee]_vars

C7_Witness ==
    /\ op = "update_storage_fee" /\ ret.ok
    /\ emitted[1].old_fee # get_storage_fee
    /\ get_storage_fee = args.new_fee

\* C8: get_logs_by_type_and_author(t, a) is the subsequence of the type list
\* made of the IDs that occur in the author list; empty when a bucket is unseen.
InAuthorList(a, x) == x \in Range(get_logs_by_author(a))
C8_Intersection ==
    \A t \in LogTypes : \A a \in Accounts :
        /\ get_logs_by_type_and_author(t, a) =
               SelectSeq(get_logs_by_type(t), LAMBDA x : InAuthorList(a, x))
        /\ (t \notin DOMAIN logs_by_type \/ a \notin DOMAIN logs_by_author)
               => get_logs_by_type_and_author(t, a) = << >>

C8_Witness ==
    \E t \in LogTypes : \E a \in Accounts :
        /\ get_logs_by_type_and_author(t, a) # << >>
        /\ Len(get_logs_by_type_and_author(t, a)) < Len(get_logs_by_type(t))
        /\ Len(get_logs_by_type_and_author(t, a)) < Len(get_logs_by_author(a))

\* C9: search_logs_by_content(term) lists, ascending and without repeats,
\* exactly the IDs of the stored entries whose data contains term.
C9_SearchExact ==
    \A term \in Terms :
        /\ StrictlyAscending(search_logs_by_content(term))
        /\ Range(search_logs_by_content(term)) =
               {i \in U64 : get_log(i).ok /\ StrContains(get_log(i).val.data, term)}

\* C10 as stated: the totals equal the count and the payment sum of the
\* successful store_log calls.
C10_TotalsExact ==
    /\ get_total_logs = Len(issued)
    /\ get_total_fees_burned = paid

\* C10 amended: the totals equal the count and the payment sum of the
\* successful store_log calls, each capped at the ceiling of its type.
C10_TotalsSaturated ==
    /\ get_total_logs = Min(Len(issued), U64_MAX)
    /\ get_total_fees_burned = Min(paid, BALANCE_MAX)

C10_Witness ==
    /\ Stored(op, ret)
    /\ Len(issued) >= 2
    /\ args.payment > storage_fee
    /\ get_total_fees_burned = paid
    /\ paid > 0

\* C11: get_log returns LogNotFound for every id at or above next_log_id, for
\* id 0 and for every id that no successful store_log has returned.
C11_UnassignedNotFound ==
    \A id \in U64 :
        (id >= get_next_log_id \/ id = 0 \/ id \notin Range(issued))
            => Failed("get_log", get_log(id))

\* C12: next_log_id is greater than every ID returned so far and never
\* decreases across a step.
C12_CounterAboveIssued ==
    [][/\ \A i \in Range(issued') : get_next_log_id' > i
       /\ get_next_log_id' >= get_next_log_id]_vars

\* C13: every state a request observes has each earlier store applied as a
\* whole (entry attributes, index entries, counters), and no two stores
\* obtain the same next_log_id.
SameKeys ==
    /\ DOMAIN log_data = DOMAIN log_types
    /\ DOMAIN log_data = DOMAIN log_authors
    /\ DOMAIN log_data = DOMAIN log_timestamps
C13_StoresAtomic ==
    /\ SameKeys
    /\ \A id \in DOMAIN log_data :
          /\ VecContains(get_logs_by_type(log_types[id]), id)
          /\ VecContains(get_logs_by_author(log_authors[id]), id)
    /\ Len(issued) > 0 => get_total_logs > 0 /\ get_next_log_id > 1
    /\ \A i \in 1..Len(issued) : \A j \in 1..Len(issued) :
          i # j => issued[i] # issued[j]

\* C15: the ID counter grows by exactly 1 on every successful store_log and
\* is unchanged by every other call; once it has reached the u64 ceiling a
\* store_log with valid inputs fails.
C15_CounterStepsOrStoreFails ==
    [][/\ Stored(op', ret') => get_next_log_id' = get_next_log_id + 1
       /\ ~Stored(op', ret') => get_next_log_id' = get_next_log_id
       /\ (op' = "store_log" /\ get_next_log_id = U64_MAX) => Failed(op', ret')]_vars

\* C14: a successful store_log emits LogStored and then FeeBurned with the
\* values of the call, a successful update_storage_fee emits one
\* StorageFeeUpdated with the old fee, the new fee and the caller, and a call
\* that returns an error emits nothing.
Updated(o, r) == o = "update_storage_fee" /\ r.ok
C14_EventsFollowOutcome ==
    [][/\ Stored(op', ret') =>
             emitted' = <<LogStored(ret'.val, args'.caller, args'.log_type, args'.data),
                          FeeBurned(args'.payment, args'.caller)>>
       /\ Updated(op', ret') =>
             emitted' = <<StorageFeeUpdated(get_storage_fee, args'.new_fee, args'.caller)>>
       /\ Failed(op', ret') => emitted' = << >>]_vars

C14_Witness ==
    /\ Stored(op, ret)
    /\ Len(emitted) = 2
    /\ emitted[1].log_id = U64_MAX
    /\ emitted[2].amount > get_storage_fee

\* C16: the two totals never decrease; a successful store_log with payment p
\* sets total_logs to min(total_logs + 1, u64 max) and total_fees_burned to
\* min(total_fees_burned + p, Balance max); no other call changes them.
C16_TotalsSaturate ==
    [][/\ get_total_logs' >= get_total_logs
       /\ get_total_fees_burned' >= get_total_fees_burned
       /\ Stored(op', ret') =>
             /\ get_total_logs' = Min(get_total_logs + 1, U64_MAX)
             /\ get_total_fees_burned' =
                    Min(get_total_fees_burned + args'.payment, BALANCE_MAX)
       /\ ~Stored(op', ret') => UNCHANGED <<total_logs, total_fees_burned>>]_vars

C16_Witness ==
    /\ Stored(op, ret)
    /\ args.payment > 0
    /\ get_total_fees_burned = BALANCE_MAX /\ paid > BALANCE_MAX
    /\ get_total_logs = U64_MAX /\ Len(issued) > U64_MAX

\* C17: a successful update_storage_fee takes any new_fee and changes only
\* storage_fee; storage_fee changes in no other step; every store_log with
\* valid data and type succeeds exactly when its payment meets the fee in
\* force at that call.
C17_FeeUpdateFrame ==
    [][/\ Updated(op', ret') =>
             /\ get_storage_fee' = args'.new_fee
             /\ UNCHANGED <<owner, next_log_id, total_logs, total_fees_burned,
                            log_data, log_types, log_authors, log_timestamps,
                            logs_by_type, logs_by_author>>
       /\ (op' = "update_storage_fee" /\ args'.caller = owner) => ret'.ok
       /\ get_storage_fee' # get_storage_fee => Updated(op', ret')
       /\ (op' = "store_log" /\ args'.data # << >> /\ args'.log_type # 0) =>
             (ret'.ok <=> args'.payment >= get_storage_fee)]_vars

C17_Witness ==
    /\ Updated(op, ret)
    /\ args.new_fee = BALANCE_MAX /\ get_storage_fee = BALANCE_MAX
    /\ emitted[1].old_fee = 0
    /\ get_total_logs > 0

\* C18: get_owner() is the caller of the constructor in every reachable state.
C18_OwnerFixed == get_owner = Deployer

C18_Witness ==
    /\ Failed(op, ret) /\ op = "update_storage_fee"
    /\ args.caller # Deployer
    /\ \E id \in DOMAIN log_authors : log_authors[id] # Deployer
    /\ get_owner = Deployer

\* C19: the four attribute maps have the same keys, and while next_log_id is
\* below the u64 ceiling the keys are exactly 1..next_log_id - 1 and total_logs
\* is next_log_id - 1.
C19_NoPartialEntriesNoGaps ==
    /\ SameKeys
    /\ get_next_log_id < U64_MAX =>
          /\ DOMAIN log_data = 1..(get_next_log_id - 1)
          /\ get_total_logs = get_next_log_id - 1

C19_Witness ==
    /\ Stored(op, ret)
    /\ get_next_log_id < U64_MAX
    /\ DOMAIN log_timestamps = {1}
    /\ get_total_logs = 1

\* C20: every bucket is strictly ascending, every stored ID is in exactly one
\* type bucket and one author bucket, and the bucket lengths of each index
\* add up to the number of stored entries.
RECURSIVE SumLen(_, _)
SumLen(m, keys) ==
    IF keys = {} THEN 0
    ELSE LET k == CHOOSE x \in keys : TRUE
         IN Len(m[k]) + SumLen(m, keys \ {k})
C20_BucketsPartitionEntries ==
    /\ \A t \in LogTypes : StrictlyAscending(get_logs_by_type(t))
    /\ \A a \in Accounts : StrictlyAscending(get_logs_by_author(a))
    /\ \A id \in DOMAIN log_data :
          /\ Cardinality({t \in LogTypes : VecContains(get_logs_by_type(t), id)}) = 1
          /\ Cardinality({a \in Accounts : VecContains(get_logs_by_author(a), id)}) = 1
    /\ SumLen(logs_by_type, DOMAIN logs_by_type) = Cardinality(DOMAIN log_data)
    /\ SumLen(logs_by_author, DOMAIN logs_by_author) = Cardinality(DOMAIN log_data)

====
